---- MODULE Spec2Model ----
(***************************************************************************)
(* Model of src/main.py: cryptanalysis of a monoalphabetic substitution    *)
(* over Spanish text (frequency seeding + multi-restart simulated          *)
(* annealing).                                                             *)
(*                                                                         *)
(* Texts are sequences of one-character strings.  Scores are exact         *)
(* rationals [num, den] (the source uses binary floating point; every      *)
(* table weight is a multiple of 0.1 and the vowel regulariser is          *)
(* (20v-9n)^2/(8n^2), so every score is a rational with denominator        *)
(* 80n^2).  The alphabet is cut down to AlphLen letters (KeptOrder) so     *)
(* that the key space can be enumerated; with AlphLen = 27 the definitions *)
(* are those of the source.                                                *)
(***************************************************************************)
EXTENDS Integers, Sequences, FiniteSets, TLC

\* ------------------------------------------------------------------ bounds
AlphLen == 3
MaxLen == 2
MaxRestarts == 2
MaxIters == 2
MaxLetters == 3

\* ------------------------------------------------------- program constants
ALPH_27 ==
    <<"a","b","c","d","e","f","g","h","i","j","k","l","m","n","ñ","o","p",
      "q","r","s","t","u","v","w","x","y","z">>

SPANISH_FREQ_27 ==
    <<"e","a","o","s","r","n","i","d","l","t","u","c","m","p","b","g","y",
      "v","f","q","h","x","z","j","ñ","k","w">>

\* Python's "x in list"
InSeq(x, seq) == \E i \in DOMAIN seq : seq[i] = x

\* the order letters are kept in when the alphabet is cut: the reference
\* order with "s" moved up, so that the smallest alphabet already holds
\* vowels, a consonant, words of the lexicon ("a", "es", "se") and bigrams
\* of the table ("es", "as", "se")
KeptOrder ==
    <<"e","a","s","o","r","n","i","d","l","t","u","c","m","p","b","g","y",
      "v","f","q","h","x","z","j","ñ","k","w">>

\* a slip in the table: "e" at the end of the reference order
SPANISH_FREQ_ORDER_e_last ==
    LET kept == SelectSeq(SPANISH_FREQ_27,
                          LAMBDA c : InSeq(c, SubSeq(KeptOrder, 1, AlphLen)))
    IN  SelectSeq(kept, LAMBDA c : c # "e") \o <<"e">>

\* the reference order, cut to the AlphLen letters kept
SPANISH_FREQ_ORDER ==
    SelectSeq(SPANISH_FREQ_27, LAMBDA c : InSeq(c, SubSeq(KeptOrder, 1, AlphLen)))

\* the alphabet, in the source's order, cut to the letters of SPANISH_FREQ_ORDER
ALPH == SelectSeq(ALPH_27, LAMBDA c : InSeq(c, SPANISH_FREQ_ORDER))

VOWELS == {"a", "e", "i", "o", "u"}

\* weights in tenths
BIGRAM_SCORES ==
    <<"d","e">> :> 45 @@ <<"e","n">> :> 43 @@ <<"e","s">> :> 40 @@
    <<"l","a">> :> 40 @@ <<"e","l">> :> 38 @@ <<"q","u","e">> :> 35 @@
    <<"q","u">> :> 32 @@ <<"r","e">> :> 30 @@ <<"r","a">> :> 29 @@
    <<"o","s">> :> 28 @@ <<"a","r">> :> 28 @@ <<"c","o">> :> 27 @@
    <<"t","e">> :> 27 @@ <<"a","n">> :> 26 @@ <<"a","s">> :> 26 @@
    <<"e","r">> :> 25 @@ <<"s","e">> :> 25 @@ <<"o","r">> :> 24 @@
    <<"a","l">> :> 24 @@ <<"c","i">> :> 23 @@ <<"t","o">> :> 22 @@
    <<"n","t">> :> 22 @@ <<"l","o">> :> 21 @@ <<"n","o">> :> 21 @@
    <<"p","a">> :> 20 @@ <<"p","o">> :> 19 @@ <<"m","a">> :> 18 @@
    <<"i","s">> :> 18 @@ <<"t","a">> :> 18 @@ <<"i","n">> :> 17 @@
    <<"n","a">> :> 17 @@ <<"r","o">> :> 17 @@ <<"m","i">> :> 16 @@
    <<"l","i">> :> 15 @@ <<"d","o">> :> 15 @@ <<"u","e">> :> 15 @@
    <<"m","e">> :> 14 @@ <<"p","e">> :> 14 @@ <<"b","i">> :> 13 @@
    <<"g","a">> :> 12 @@ <<"y","a">> :> 11 @@ <<"v","e">> :> 11 @@
    <<"h","o">> :> 10 @@ <<"v","a">> :> 10 @@ <<"m","o">> :> 10

\* a dict literal: of two entries with the same key the last one stands
TRIGRAM_SCORES ==
    <<"q","u","e">> :> 70 @@ <<"e","n","t">> :> 55 @@ <<"c","o","n">> :> 50 @@
    <<"l","o","s">> :> 48 @@ <<"l","a","s">> :> 46 @@ <<"d","e","l">> :> 46 @@
    <<"u","n","a">> :> 45 @@ <<"p","o","r">> :> 44 @@ <<"e","s","t">> :> 42 @@
    <<"e","l","a">> :> 38 @@ <<"a","c","i">> :> 35 @@ <<"a","r","a">> :> 30 @@
    <<"r","e","s">> :> 34 @@ <<"d","o","s">> :> 33 @@ <<"p","a","r">> :> 32 @@
    <<"p","r","o">> :> 32 @@ <<"m","e","n">> :> 31 @@ <<"i","o","n">> :> 30 @@
    <<"e","r","a">> :> 29 @@ <<"t","r","a">> :> 29

COMMON_WORDS ==
    <<<<"d","e">>, <<"l","a">>, <<"q","u","e">>, <<"e","l">>,
      <<"e","n">>, <<"y">>, <<"a">>, <<"l","o","s">>,
      <<"s","e">>, <<"d","e","l">>, <<"l","a","s">>, <<"u","n">>,
      <<"p","o","r">>, <<"c","o","n">>, <<"n","o">>, <<"u","n","a">>,
      <<"s","u">>, <<"p","a","r","a">>, <<"e","s">>, <<"a","l">>,
      <<"l","o">>, <<"c","o","m","o">>, <<"m","á","s">>, <<"p","e","r","o">>,
      <<"s","u","s">>, <<"l","e">>, <<"y","a">>, <<"o">>,
      <<"e","s","t","e">>, <<"s","í">>, <<"p","o","r","q","u","e">>,
      <<"c","u","a","n","d","o">>, <<"m","u","y">>, <<"s","i","n">>,
      <<"s","o","b","r","e">>, <<"t","a","m","b","i","é","n">>,
      <<"m","e">>, <<"h","a","s","t","a">>>>

BigramPenalty == -8
TrigramPenalty == -5
WordBonus == 60
Shakes == 50

\* Python's None
None == "None"

\* characters str.split() treats as separators
Whitespace == {" ", "\t", "\n"}

\* ------------------------------------------------------------- key model
AlphSet == {ALPH[i] : i \in DOMAIN ALPH}

Range(f) == {f[x] : x \in DOMAIN f}

IndexOf(seq, x) == CHOOSE i \in DOMAIN seq : seq[i] = x

\* a slip: every character counts as a letter
only_letters_all(text) == text

\* only_letters: the letters of the alphabet, in order
only_letters(text) == SelectSeq(text, LAMBDA c : InSeq(c, ALPH))

\* permute_fix, first loop: keep the first proposal of every image
RECURSIVE PermuteKeep(_, _, _, _)
PermuteKeep(mapping, i, used, result) ==
    IF i > Len(ALPH) THEN [used |-> used, result |-> result]
    ELSE LET c == ALPH[i]
             p == IF c \in DOMAIN mapping THEN mapping[c] ELSE None
         IN  IF InSeq(p, ALPH) /\ p \notin used
             THEN PermuteKeep(mapping, i + 1, used \cup {p}, result @@ (c :> p))
             ELSE PermuteKeep(mapping, i + 1, used, result @@ (c :> None))

\* permute_fix, second loop: leftovers.pop(0) for every unresolved symbol
RECURSIVE PermuteFill(_, _, _)
PermuteFill(result, i, leftovers) ==
    IF i > Len(ALPH) THEN result
    ELSE IF result[ALPH[i]] = None
         THEN PermuteFill([result EXCEPT ![ALPH[i]] = Head(leftovers)],
                          i + 1, Tail(leftovers))
         ELSE PermuteFill(result, i + 1, leftovers)

\* a slip: the leftovers are taken in order of frequency
permute_fix_by_frequency(mapping) ==
    LET kept == PermuteKeep(mapping, 1, {}, <<>>)
        leftovers == SelectSeq(SPANISH_FREQ_ORDER, LAMBDA x : x \notin kept.used)
    IN  PermuteFill(kept.result, 1, leftovers)

permute_fix(mapping) ==
    LET kept == PermuteKeep(mapping, 1, {}, <<>>)
        leftovers == SelectSeq(ALPH, LAMBDA x : x \notin kept.used)
    IN  PermuteFill(kept.result, 1, leftovers)

\* Counter: number of occurrences of c in a text
RECURSIVE Count(_, _)
Count(text, c) ==
    IF text = <<>> THEN 0
    ELSE (IF Head(text) = c THEN 1 ELSE 0) + Count(Tail(text), c)

\* Counter keeps its keys in order of first occurrence
RECURSIVE FirstSeen(_, _)
FirstSeen(text, acc) ==
    IF text = <<>> THEN acc
    ELSE FirstSeen(Tail(text),
                   IF InSeq(Head(text), acc) THEN acc ELSE Append(acc, Head(text)))

\* Counter.most_common(): by descending count, ties in order of first occurrence
RECURSIVE MostCommon(_, _)
MostCommon(text, keys) ==
    IF keys = <<>> THEN <<>>
    ELSE LET top == CHOOSE i \in DOMAIN keys :
                       /\ \A j \in DOMAIN keys : Count(text, keys[j]) <= Count(text, keys[i])
                       /\ \A j \in 1..(i - 1) : Count(text, keys[j]) < Count(text, keys[i])
         IN  <<keys[top]>> \o
             MostCommon(text, SubSeq(keys, 1, top - 1) \o SubSeq(keys, top + 1, Len(keys)))

\* list.remove(x): drops the first occurrence
RemoveFirst(seq, x) ==
    IF InSeq(x, seq)
    THEN LET i == CHOOSE k \in DOMAIN seq :
                     seq[k] = x /\ \A j \in 1..(k - 1) : seq[j] # x
         IN  SubSeq(seq, 1, i - 1) \o SubSeq(seq, i + 1, Len(seq))
    ELSE seq

\* a slip: the symbols in order of first occurrence, not of frequency
initial_key_from_freq_first_seen(ciphertext_letters, force) ==
    LET common == FirstSeen(ciphertext_letters, <<>>)
        cipher_order == common \o SelectSeq(ALPH, LAMBDA c : ~InSeq(c, common))
        plain_order ==
            IF force /\ cipher_order # <<>>
            THEN <<"e">> \o SelectSeq(RemoveFirst(SPANISH_FREQ_ORDER, "e"),
                                      LAMBDA x : x # "e")
            ELSE SPANISH_FREQ_ORDER
        mapping == [ciph \in Range(cipher_order) |->
                       plain_order[((IndexOf(cipher_order, ciph) - 1) % Len(plain_order)) + 1]]
    IN  permute_fix(mapping)

initial_key_from_freq(ciphertext_letters, force) ==
    LET common == MostCommon(ciphertext_letters, FirstSeen(ciphertext_letters, <<>>))
        cipher_order == common \o SelectSeq(ALPH, LAMBDA c : ~InSeq(c, common))
        plain_order ==
            IF force /\ cipher_order # <<>>
            THEN <<"e">> \o SelectSeq(RemoveFirst(SPANISH_FREQ_ORDER, "e"),
                                      LAMBDA x : x # "e")
            ELSE SPANISH_FREQ_ORDER
        mapping == [ciph \in Range(cipher_order) |->
                       plain_order[((IndexOf(cipher_order, ciph) - 1) % Len(plain_order)) + 1]]
    IN  permute_fix(mapping)

\* a slip: the characters outside the alphabet are dropped
apply_mapping_letters(text, mapping) ==
    [i \in 1..Len(only_letters(text)) |-> mapping[only_letters(text)[i]]]

apply_mapping(text, mapping) ==
    [i \in 1..Len(text) |->
        IF InSeq(text[i], ALPH) THEN mapping[text[i]] ELSE text[i]]

\* ---------------------------------------------------------------- scoring
\* a slip: -1 as the value for "no score"
Sentinel_minus_one == [num |-> -1, den |-> 1]

\* the value returned for a text without letters
Sentinel == [num |-> -1000000000, den |-> 1]

\* a < b on rationals with positive denominators, without large products
ScoreLess(a, b) ==
    IF a.den = b.den THEN a.num < b.num
    ELSE LET fa == a.num \div a.den
             fb == b.num \div b.den
         IN  IF fa # fb THEN fa < fb
             ELSE (a.num % a.den) * b.den < (b.num % b.den) * a.den

RECURSIVE Sum(_)
Sum(seq) == IF seq = <<>> THEN 0 ELSE Head(seq) + Sum(Tail(seq))

\* str.split(): the maximal runs of non-whitespace characters
RECURSIVE Split(_, _, _)
Split(text, word, acc) ==
    IF text = <<>> THEN (IF word = <<>> THEN acc ELSE Append(acc, word))
    ELSE IF Head(text) \in Whitespace
         THEN Split(Tail(text), <<>>, IF word = <<>> THEN acc ELSE Append(acc, word))
         ELSE Split(Tail(text), Append(word, Head(text)), acc)

score_text(plain) ==
    LET letters == only_letters(plain)
        n == Len(letters)
        Bi(i) == LET bg == SubSeq(letters, i, i + 1)
                 IN  IF bg \in DOMAIN BIGRAM_SCORES THEN BIGRAM_SCORES[bg]
                     ELSE BigramPenalty
        Tri(i) == LET tg == SubSeq(letters, i, i + 2)
                  IN  IF tg \in DOMAIN TRIGRAM_SCORES THEN TRIGRAM_SCORES[tg]
                      ELSE TrigramPenalty
        words == Split(plain, <<>>, <<>>)
        Word(i) == WordBonus * Count(words, COMMON_WORDS[i])
        tenths == Sum([i \in 1..(n - 1) |-> Bi(i)])
                  + Sum([i \in 1..(n - 2) |-> Tri(i)])
                  + Sum([i \in DOMAIN COMMON_WORDS |-> Word(i)])
        vowels == Cardinality({i \in DOMAIN letters : letters[i] \in VOWELS})
        dev == 20 * vowels - 9 * n
    IN  IF n = 0 THEN Sentinel
        ELSE [num |-> 8 * n * n * tenths - 10 * dev * dev, den |-> 80 * n * n]

\* ------------------------------------------------------------------ search
\* a slip: the images a are sent to b, the images b are left alone
random_swap_key_one_way(mapping, a, b) ==
    [m |-> [k \in DOMAIN mapping |-> IF mapping[k] = a THEN b ELSE mapping[k]],
     mapping |-> mapping]

\* random_swap_key with the two sampled images a, b: m is the returned key,
\* mapping the argument as the call leaves it (the swap works on a copy)
\* a slip: two ifs in a row, so an image moved to b moves back to a
random_swap_key_sequential(mapping, a, b) ==
    [m |-> [k \in DOMAIN mapping |->
               IF mapping[k] = a \/ mapping[k] = b THEN a ELSE mapping[k]],
     mapping |-> mapping]

\* a slip: no copy, the argument itself is changed
random_swap_key_in_place(mapping, a, b) ==
    LET swapped == [k \in DOMAIN mapping |->
                       IF mapping[k] = a THEN b
                       ELSE IF mapping[k] = b THEN a ELSE mapping[k]]
    IN  [m |-> swapped, mapping |-> swapped]

random_swap_key(mapping, a, b) ==
    [m |-> [k \in DOMAIN mapping |->
               IF mapping[k] = a THEN b
               ELSE IF mapping[k] = b THEN a
               ELSE mapping[k]],
     mapping |-> mapping]

\* random.sample(vals, 2) over vals = list(set(m.values())): any two distinct
\* images, in either order
Sample2(mapping) == {ab \in Range(mapping) \X Range(mapping) : ab[1] # ab[2]}

\* random.sample raises ValueError when vals holds fewer than two images
SampleRaises(mapping) == Cardinality(Range(mapping)) < 2

\* the cooling schedule: T = max(Tmin, T0 * (1 - t/iters)) as a rational
T0Hundredths == 200
TminHundredths == 1

Max(a, b) == IF a >= b THEN a ELSE b

\* Tmin as a rational
Tmin == [num |-> TminHundredths, den |-> 100]

\* a slip: no max(Tmin, ...), the linear cooling alone
Temperature_unclamped(step, n) ==
    [num |-> T0Hundredths * (n - step), den |-> 100 * n]

Temperature(step, n) ==
    [num |-> Max(TminHundredths * n, T0Hundredths * (n - step)), den |-> 100 * n]

\* the floor of the divisor in exp(delta / max(T, 1e-6))
Epsilon == [num |-> 1, den |-> 1000000]

RatMax(a, b) == IF ScoreLess(a, b) THEN b ELSE a

\* math.exp(x) is 0.0 for x below about -745.13 and positive above
ExpUnderflow == [num |-> -74513, den |-> 100]

\* math.exp(delta / temp) > 0, for delta = a - b < 0 with a.den = b.den
ExpPositive(a, b, temp) ==
    ScoreLess(ExpUnderflow,
              [num |-> (a.num - b.num) * temp.den, den |-> a.den * temp.num])

\* t / iters and delta / max(T, 1e-6) raise ZeroDivisionError on a zero divisor
DivisionRaises(step, n) ==
    \/ n = 0
    \/ RatMax(Temperature(step, n), Epsilon).num = 0

\* a slip: range(1, iters+2), one round too many
InLoop_one_more(step, n) == step <= n + 1

\* for t in range(1, iters+1): the loop has a round left
InLoop(step, n) == step <= n

\* a slip: current_score >= best_score
Improves_or_equal(score, than) == ~ScoreLess(score, than)

\* current_score > best_score
Improves(score, than) == ScoreLess(than, score)

\* a slip: the draw decides for every neighbour, also for one that scores
\* at least as high
Accepts_only_by_draw(new, cur, temp, below) ==
    below /\ (~ScoreLess(new, cur) \/ ExpPositive(new, cur, RatMax(temp, Epsilon)))

\* delta >= 0 or random.random() < math.exp(delta / max(T, 1e-6)); below says
\* that the draw is under a positive value of the exponential
Accepts(new, cur, temp, below) ==
    \/ ~ScoreLess(new, cur)
    \/ below /\ ExpPositive(new, cur, RatMax(temp, Epsilon))

\* ------------------------------------------------------ steps of decipher
\* the values of the locals that are not bound yet
NoKey == <<>>
NoText == <<None>>
NoScore == [num |-> 0, den |-> 0]
NoInt == -1
NoResult == <<>>

\* the candidates decipher holds: the current (key, plain, score) and the best
NoCandidates ==
    [current_key |-> NoKey, current_plain |-> NoText, current_score |-> NoScore,
     best_key |-> NoKey, best_plain |-> NoText, best_score |-> NoScore]

\* lines 176-180: the seed key and its decode are the best so far
Seeded(text, force) ==
    LET key == initial_key_from_freq(only_letters(text), force)
        plain == apply_mapping(text, key)
    IN  [NoCandidates EXCEPT !.best_key = key, !.best_plain = plain,
                             !.best_score = score_text(plain)]

\* lines 184-186: the key a restart starts from becomes the current candidate
Started(c, key, text) ==
    LET plain == apply_mapping(text, key)
    IN  [c EXCEPT !.current_key = key, !.current_plain = plain,
                  !.current_score = score_text(plain)]

\* lines 191-202: one iteration, with the sampled images ab and the draw
\* below; accepted tells whether the neighbour was taken, drew whether
\* random.random() was called (the or of line 196 calls it only for a
\* neighbour that scores lower), new_score what the neighbour scored
Annealed(c, ab, below, text, step, n) ==
    LET temp == Temperature(step, n)
        swap == random_swap_key(c.current_key, ab[1], ab[2])
        new_key == swap.m
        new_plain == apply_mapping(text, new_key)
        new_score == score_text(new_plain)
        better == Improves(new_score, c.best_score)
        drew == ScoreLess(new_score, c.current_score)
    IN  IF Accepts(new_score, c.current_score, temp, below)
        THEN [accepted |-> TRUE, drew |-> drew, new_score |-> new_score,
              current_key |-> new_key,
              current_plain |-> new_plain,
              current_score |-> new_score,
              best_key |-> IF better THEN new_key ELSE c.best_key,
              best_plain |-> IF better THEN new_plain ELSE c.best_plain,
              best_score |-> IF better THEN new_score ELSE c.best_score]
        ELSE [accepted |-> FALSE, drew |-> drew, new_score |-> new_score,
              current_key |-> swap.mapping,
              current_plain |-> c.current_plain,
              current_score |-> c.current_score,
              best_key |-> c.best_key,
              best_plain |-> c.best_plain,
              best_score |-> c.best_score]

\* ------------------------------------------------------------------- state
VARIABLES
    cipher_norm, restarts, iters, force_e,      \* the arguments of decipher
    pc,                                           \* where decipher stands
    base_key, best_key, best_plain, best_score,
    r, current_key, current_plain, current_score, t,
    m, shaken,                                    \* shake_key: its key and its loop count
    result,                                       \* what decipher returned
    seen_max, exceeded, steps,                    \* history of the run
    last,                                         \* the iteration just run
    twin,                                         \* a second invocation, same arguments and seed
    call                                          \* one call of a function of the key model

vars == <<cipher_norm, restarts, iters, force_e, pc, base_key, best_key,
          best_plain, best_score, r, current_key, current_plain, current_score,
          t, m, shaken, result, seen_max, exceeded, steps, last, twin, call>>

args == <<cipher_norm, restarts, iters, force_e>>
best == <<best_key, best_plain, best_score>>
current == <<current_key, current_plain, current_score>>
history == <<seen_max, exceeded, steps, last>>

\* the candidates as decipher holds them now
Candidates ==
    [current_key |-> current_key, current_plain |-> current_plain,
     current_score |-> current_score,
     best_key |-> best_key, best_plain |-> best_plain, best_score |-> best_score]

\* the candidates become c
SetCurrent(c) ==
    /\ current_key' = c.current_key
    /\ current_plain' = c.current_plain
    /\ current_score' = c.current_score

\* a slip: the best plaintext is not replaced with the key and the score
SetBest_without_plain(c) ==
    /\ best_key' = c.best_key
    /\ best_plain' = best_plain
    /\ best_score' = c.best_score

SetBest(c) ==
    /\ best_key' = c.best_key
    /\ best_plain' = c.best_plain
    /\ best_score' = c.best_score

\* the characters of the texts tried: the letters, a blank and a full stop
Chars == AlphSet \cup {" ", "."}

Texts == UNION {[1..n -> Chars] : n \in 0..MaxLen}

\* no iteration run in this restart, no second invocation, no call under test
NoLast == [on |-> FALSE]
NoTwin == [on |-> FALSE]
NoCall == [op |-> "none"]

\* the locals of decipher are not bound
Unbound ==
    /\ base_key = NoKey /\ best_key = NoKey
    /\ best_plain = NoText /\ best_score = NoScore
    /\ r = NoInt /\ t = NoInt
    /\ current_key = NoKey /\ current_plain = NoText /\ current_score = NoScore
    /\ m = NoKey /\ shaken = NoInt
    /\ result = NoResult
    /\ seen_max = NoScore /\ exceeded = FALSE /\ steps = 0
    /\ last = NoLast

\* decipher has been called and has bound nothing yet
Entered == pc = "seed" /\ Unbound

Init ==
    /\ cipher_norm \in Texts
    /\ restarts \in 0..MaxRestarts
    /\ iters \in 0..MaxIters
    /\ force_e \in BOOLEAN
    /\ Entered
    /\ twin = NoTwin
    /\ call = NoCall

\* where control stands: the guards of the steps of decipher
AtSeed == pc = "seed"
CanBeginRestart == pc = "restart" /\ r < restarts
CanReturn == pc = "restart" /\ r >= restarts
CanShake == pc = "shake" /\ shaken < Shakes
CanEndShake == pc = "shake" /\ shaken = Shakes
CanIterate == pc = "anneal" /\ InLoop(t, iters)
CanEndRestart == pc = "anneal" /\ ~InLoop(t, iters)

\* the decode of the text under the seed key, and its score
SeedPlain == apply_mapping(cipher_norm, base_key)
SeedScore == score_text(SeedPlain)

\* lines 176-180
DoSeed ==
    /\ AtSeed
    /\ LET c == Seeded(cipher_norm, force_e)
       IN  base_key' = c.best_key /\ SetBest(c)
    /\ r' = 0
    /\ pc' = "restart"
    /\ UNCHANGED <<args, current, t, m, shaken, result, history>>

\* lines 185-186, and the head of the loop of line 190
StartFrom(key) ==
    LET c == Started(Candidates, key, cipher_norm)
    IN  /\ SetCurrent(c)
        /\ seen_max' = IF seen_max = NoScore THEN c.current_score
                       ELSE RatMax(seen_max, c.current_score)
        /\ t' = 1
        /\ pc' = "anneal"

\* a slip: a later restart shakes the key the restart before it ended with
DoBeginRestart_from_current ==
    /\ CanBeginRestart
    /\ IF r = 0
       THEN StartFrom(base_key) /\ UNCHANGED <<m, shaken>>
       ELSE /\ m' = current_key
            /\ shaken' = 0
            /\ pc' = "shake"
            /\ UNCHANGED <<current, t, seen_max>>
    /\ UNCHANGED <<args, base_key, best, r, result, exceeded, steps, last>>

\* lines 182-184: restart 0 takes the seed key, a later one calls
\* shake_key(base_key, shakes=50), which starts from a copy of its argument
DoBeginRestart ==
    /\ CanBeginRestart
    /\ IF r = 0
       THEN StartFrom(base_key) /\ UNCHANGED <<m, shaken>>
       ELSE /\ m' = base_key
            /\ shaken' = 0
            /\ pc' = "shake"
            /\ UNCHANGED <<current, t, seen_max>>
    /\ UNCHANGED <<args, base_key, best, r, result, exceeded, steps, last>>

\* lines 208-209: one round of the loop of shake_key, with the sampled images ab
DoShakeStep(ab) ==
    /\ CanShake
    /\ IF SampleRaises(m)
       THEN pc' = "error" /\ UNCHANGED <<m, shaken>>
       ELSE /\ m' = random_swap_key(m, ab[1], ab[2]).m
            /\ shaken' = shaken + 1
            /\ UNCHANGED pc
    /\ UNCHANGED <<args, base_key, best, r, current, t, result, history>>

\* line 210 and lines 184-186: shake_key returns the key the restart starts from
DoEndShake ==
    /\ CanEndShake
    /\ StartFrom(m)
    /\ UNCHANGED <<args, base_key, best, r, m, shaken, result, exceeded, steps, last>>

\* line 191 or line 163 raises: decipher ends with the exception
IterateRaises ==
    /\ pc' = "error"
    /\ UNCHANGED <<args, base_key, best, r, current, t, m, shaken, result, history>>

\* lines 193-197 of the iteration that gave c: the scores compared, whether
\* random.random() was called, and the outcome
Noted(c) ==
    [on |-> TRUE, new_score |-> c.new_score, current_score |-> current_score,
     drew |-> c.drew, accepted |-> c.accepted]

\* lines 192-202 have left c in current and best; on to the next iteration
Iterated(c) ==
    /\ SetCurrent(c)
    /\ SetBest(c)
    /\ seen_max' = RatMax(seen_max, c.current_score)
    /\ exceeded' = (exceeded \/ (c.accepted /\ ScoreLess(SeedScore, c.current_score)))
    /\ t' = t + 1
    /\ steps' = steps + 1
    /\ UNCHANGED <<args, pc, base_key, r, m, shaken, result>>

\* lines 190-202: one iteration of the annealing loop, with the sampled images
\* ab and the draw below
DoIterate(ab, below) ==
    /\ CanIterate
    /\ IF DivisionRaises(t, iters) \/ SampleRaises(current_key)
       THEN IterateRaises
       ELSE \E c \in {Annealed(Candidates, ab, below, cipher_norm, t, iters)} :
               Iterated(c) /\ last' = Noted(c)

\* line 190 exhausted: on to the next restart
DoEndRestart ==
    /\ CanEndRestart
    /\ r' = r + 1
    /\ pc' = "restart"
    /\ last' = NoLast
    /\ UNCHANGED <<args, base_key, best, current, t, m, shaken, result,
                   seen_max, exceeded, steps>>

\* line 204
DoReturn ==
    /\ CanReturn
    /\ result' = <<best_plain, best_key, best_score>>
    /\ pc' = "done"
    /\ UNCHANGED <<args, base_key, best, r, current, t, m, shaken, history>>

\* ------------------------------------------------------- one run of decipher
\* the images random.sample can return when a call does not raise
Draws(mapping) == IF SampleRaises(mapping) THEN {<<None, None>>} ELSE Sample2(mapping)

Seed == DoSeed /\ UNCHANGED <<twin, call>>

BeginRestart == DoBeginRestart /\ UNCHANGED <<twin, call>>

ShakeStep == \E ab \in Draws(m) : DoShakeStep(ab) /\ UNCHANGED <<twin, call>>

EndShake == DoEndShake /\ UNCHANGED <<twin, call>>

Iterate ==
    \E ab \in Draws(current_key), below \in BOOLEAN :
        DoIterate(ab, below) /\ UNCHANGED <<twin, call>>

EndRestart == DoEndRestart /\ UNCHANGED <<twin, call>>

Return == DoReturn /\ UNCHANGED <<twin, call>>

Next ==
    \/ Seed
    \/ BeginRestart
    \/ ShakeStep
    \/ EndShake
    \/ Iterate
    \/ EndRestart
    \/ Return

Spec == Init /\ [][Next]_vars

\* ------------------------------------- two invocations with the same seed
\* The same seed gives both invocations the same random stream. What
\* random.sample draws from the stream is a pair of positions in vals, and
\* vals = list(set(m.values())) (line 162) lists the images in the order of
\* the set, which follows the string hashes of the process that runs it.

\* the orders a set of the images can be listed in
HashOrders == {h \in [1..Len(ALPH) -> AlphSet] : \A i, j \in 1..Len(ALPH) : h[i] = h[j] => i = j}

\* line 162: the images of the key, in the order of the process
Vals(hash, mapping) == SelectSeq(hash, LAMBDA x : x \in Range(mapping))

\* line 163: the positions random.sample(vals, 2) can return; <<0, 0>> stands
\* for the call that raises
Positions(mapping) ==
    IF SampleRaises(mapping) THEN {<<0, 0>>}
    ELSE {ij \in (1..Cardinality(Range(mapping))) \X (1..Cardinality(Range(mapping))) :
             ij[1] # ij[2]}

\* line 163: a, b for the positions ij
Sampled(hash, mapping, ij) ==
    IF SampleRaises(mapping) THEN <<None, None>>
    ELSE <<Vals(hash, mapping)[ij[1]], Vals(hash, mapping)[ij[2]]>>

\* the candidates without the notes of the last iteration
Held(c) == [f \in DOMAIN NoCandidates |-> c[f]]

\* both invocations have been called with the same arguments, force_e as
\* main passes it (line 240); each process has its own order of hashes, and
\* the order of the second is taken relative to the order of the first,
\* which is written as ALPH
InitDet ==
    /\ cipher_norm \in Texts
    /\ restarts \in 0..MaxRestarts
    /\ iters \in 0..MaxIters
    /\ force_e = TRUE
    /\ Entered
    /\ \E h2 \in HashOrders :
          twin = [on |-> TRUE, synced |-> TRUE, hash |-> <<ALPH, h2>>,
                  base_key |-> NoKey, c |-> NoCandidates, m |-> NoKey,
                  result |-> NoResult]
    /\ call = NoCall

SeedBoth ==
    /\ DoSeed
    /\ LET c == Seeded(cipher_norm, force_e)
       IN  twin' = [twin EXCEPT !.base_key = c.best_key, !.c = c]
    /\ UNCHANGED call

BeginRestartBoth ==
    /\ DoBeginRestart
    /\ twin' = IF r = 0
               THEN [twin EXCEPT !.c = Started(twin.c, twin.base_key, cipher_norm)]
               ELSE [twin EXCEPT !.m = twin.base_key]
    /\ UNCHANGED call

\* lines 208-209 in both: shake_key draws only through random.sample, so a
\* round reads the same positions in the two processes; the pairs of keys
\* the two can hold after one more round
ShakenOnce(pairs, hash) ==
    {<<random_swap_key(p[1], ab[1][1], ab[1][2]).m,
       random_swap_key(p[2], ab[2][1], ab[2][2]).m>> :
        <<p, ab>> \in {<<q, <<Sampled(hash[1], q[1], ij), Sampled(hash[2], q[2], ij)>>>> :
                          q \in pairs, ij \in Positions(m)}}

\* lines 206-210 in both: the pairs of keys after n more rounds; when two
\* rounds give back the same set, every even number of rounds does
RECURSIVE ShakenBoth(_, _, _)
ShakenBoth(pairs, hash, n) ==
    IF n = 0 THEN pairs
    ELSE IF n % 2 = 0 /\ ShakenOnce(ShakenOnce(pairs, hash), hash) = pairs THEN pairs
    ELSE ShakenBoth(ShakenOnce(pairs, hash), hash, n - 1)

\* the whole call shake_key(base_key, shakes=50) in both
ShakeBoth ==
    /\ CanShake
    /\ IF SampleRaises(m)
       THEN pc' = "error" /\ UNCHANGED <<m, shaken, twin>>
       ELSE \E p \in ShakenBoth({<<m, twin.m>>}, twin.hash, Shakes - shaken) :
               /\ m' = p[1]
               /\ shaken' = Shakes
               /\ twin' = [twin EXCEPT !.m = p[2]]
               /\ UNCHANGED pc
    /\ UNCHANGED <<args, base_key, best, r, current, t, result, history, call>>

EndShakeBoth ==
    /\ DoEndShake
    /\ twin' = [twin EXCEPT !.c = Started(twin.c, twin.m, cipher_norm)]
    /\ UNCHANGED call

\* lines 191-202 in one process: the outcomes of an iteration, each with
\* the positions and the draw that give it (below is read only when
\* random.random() is called)
Outcomes(c, hash) ==
    {o \in {[ij |-> ij, below |-> below,
             c |-> Annealed(c, Sampled(hash, c.current_key, ij), below,
                            cipher_norm, t, iters)] :
               ij \in Positions(c.current_key), below \in BOOLEAN} :
        o.c.drew \/ o.below}

\* one iteration in both: while the two have drawn the same number of values
\* they read the same positions and the same random.random(); once one has
\* called random.random() and the other has not, they read different parts
\* of the stream
IterateBoth ==
    /\ CanIterate
    /\ IF DivisionRaises(t, iters) \/ SampleRaises(current_key)
       THEN IterateRaises /\ UNCHANGED twin
       ELSE \E o \in Outcomes(Candidates, twin.hash[1]) \X Outcomes(twin.c, twin.hash[2]) :
               /\ twin.synced => o[2].ij = o[1].ij
               /\ (twin.synced /\ o[1].c.drew /\ o[2].c.drew) => o[2].below = o[1].below
               /\ Iterated(o[1].c)
               /\ UNCHANGED last
               /\ twin' = [twin EXCEPT !.c = Held(o[2].c),
                                       !.synced = twin.synced /\ (o[1].c.drew = o[2].c.drew)]
    /\ UNCHANGED call

EndRestartBoth == DoEndRestart /\ UNCHANGED <<twin, call>>

ReturnBoth ==
    /\ DoReturn
    /\ twin' = [twin EXCEPT !.result = <<twin.c.best_plain, twin.c.best_key, twin.c.best_score>>]
    /\ UNCHANGED call

NextDet ==
    \/ SeedBoth
    \/ BeginRestartBoth
    \/ ShakeBoth
    \/ EndShakeBoth
    \/ IterateBoth
    \/ EndRestartBoth
    \/ ReturnBoth

SpecDet == InitDet /\ [][NextDet]_vars

\* ------------------------------------------- calls of the key model alone
\* the keys a caller can pass: every total mapping of the alphabet
Keys == [AlphSet -> AlphSet]

\* the mappings permute_fix can be handed: partial, and with images outside
\* the alphabet
Proposals == UNION {[d -> AlphSet \cup {"?"}] : d \in SUBSET AlphSet}

\* the module is loaded, decipher has not been called, no call made yet
InitFn ==
    /\ cipher_norm = NoText
    /\ restarts = NoInt
    /\ iters = NoInt
    /\ force_e = FALSE
    /\ pc = "idle"
    /\ Unbound
    /\ twin = NoTwin
    /\ call = NoCall

decipher_vars == <<args, pc, base_key, best, r, current, t, m, shaken, result, history, twin>>

\* apply_mapping(text, key)
CallApply ==
    /\ call.op = "none"
    /\ \E text \in Texts, key \in Keys :
        /\ call' = [op |-> "apply_mapping", text |-> text, key |-> key,
                    ret |-> apply_mapping(text, key)]
        /\ UNCHANGED decipher_vars

\* random_swap_key(key) with the sampled images ab: arg is the key as it was
\* passed, mapping the same dict after the call, ret the dict returned
CallSwap ==
    /\ call.op = "none"
    /\ \E key \in Keys :
        /\ ~SampleRaises(key)
        /\ \E ab \in Sample2(key) :
              LET swap == random_swap_key(key, ab[1], ab[2])
              IN  call' = [op |-> "random_swap_key", arg |-> key,
                           a |-> ab[1], b |-> ab[2],
                           mapping |-> swap.mapping, ret |-> swap.m]
        /\ UNCHANGED decipher_vars

\* the key returned by a swap is swapped again on the same two images
CallSwapAgain ==
    /\ call.op = "random_swap_key"
    /\ LET swap == random_swap_key(call.ret, call.a, call.b)
       IN  call' = [op |-> "random_swap_key twice", arg |-> call.arg,
                    a |-> call.a, b |-> call.b,
                    once |-> call.ret, mapping |-> swap.mapping, ret |-> swap.m]
    /\ UNCHANGED decipher_vars

\* permute_fix(mapping)
CallPermuteFix ==
    /\ call.op = "none"
    /\ \E mapping \in Proposals :
        /\ call' = [op |-> "permute_fix", mapping |-> mapping,
                    ret |-> permute_fix(mapping)]
        /\ UNCHANGED decipher_vars

\* score_text(plain)
CallScore ==
    /\ call.op = "none"
    /\ \E plain \in Texts :
        /\ call' = [op |-> "score_text", plain |-> plain, ret |-> score_text(plain)]
        /\ UNCHANGED decipher_vars

\* the ciphertexts handed to the seeder: letters only (line 176)
LetterTexts == UNION {[1..n -> AlphSet] : n \in 0..MaxLetters}

\* initial_key_from_freq(ciphertext_letters, force_e)
CallSeed ==
    /\ call.op = "none"
    /\ \E letters \in LetterTexts, force \in BOOLEAN :
        /\ call' = [op |-> "initial_key_from_freq", ciphertext_letters |-> letters,
                    force_e |-> force, ret |-> initial_key_from_freq(letters, force)]
        /\ UNCHANGED decipher_vars

\* the same ciphertext is seeded again with the other value of force_e
CallSeedOther ==
    /\ call.op = "initial_key_from_freq"
    /\ call' = [op |-> "initial_key_from_freq both",
                ciphertext_letters |-> call.ciphertext_letters,
                force_e |-> call.force_e, ret |-> call.ret,
                other |-> initial_key_from_freq(call.ciphertext_letters, ~call.force_e)]
    /\ UNCHANGED decipher_vars

NextFn ==
    \/ CallApply
    \/ CallSwap
    \/ CallSwapAgain
    \/ CallPermuteFix
    \/ CallScore
    \/ CallSeed
    \/ CallSeedOther

SpecFn == InitFn /\ [][NextFn]_vars

\* ------------------------------------------------------------------ claims
\* a total bijection of the alphabet
IsBijection(key) ==
    /\ DOMAIN key = AlphSet
    /\ \A c \in AlphSet : Cardinality({k \in AlphSet : key[k] = c}) = 1

\* C1: every key of a run (the seed key, the key shake_key is working on, the
\* current key and the best key) is a bijection on the alphabet.
C1_KeysAreBijections ==
    \A key \in {base_key, best_key, current_key, m} \ {NoKey} : IsBijection(key)

\* C1, witness: a run of two restarts has returned after shaking the seed key
\* and accepting swaps, with keys that differ from the seed key.
C1_Witness ==
    /\ pc = "done" /\ restarts = 2 /\ steps > 0
    /\ m # base_key /\ current_key # m /\ best_key # base_key

\* C2: the score decipher returns is at least the score of every key that was
\* the current key at some moment of the run, the key a restart starts from
\* included.
C2_ReturnsBestSeen ==
    (pc = "done" /\ seen_max # NoScore) => ~ScoreLess(result[3], seen_max)

\* C3: the best score never decreases from one step to the next; the returned
\* score is at least the score of the seed key's decode; and when no accepted
\* move ever scored above the seed, decipher returns the seed key, its decode
\* and its score.
C3_BestMonotone ==
    /\ [][best_score # NoScore => ~ScoreLess(best_score', best_score)]_vars
    /\ [](pc = "done" =>
            /\ ~ScoreLess(result[3], SeedScore)
            /\ ~exceeded => result = <<SeedPlain, base_key, SeedScore>>)

\* C3, witness: a run has returned after accepting moves, none of them above
\* the score of the seed.
C3_Witness ==
    /\ pc = "done" /\ steps > 0 /\ ~exceeded
    /\ current_key # base_key /\ restarts = 1

\* the steps decipher has left before it has returned: one for the seed, for
\* every restart one to begin, the rounds of shake_key and its return, the
\* iterations and one to close the loop, and one for the return
RestartCost == Shakes + iters + 3

Remaining ==
    CASE pc = "seed" -> restarts * RestartCost + 2
      [] pc = "restart" -> (restarts - r) * RestartCost + 1
      [] pc = "shake" -> (restarts - r) * RestartCost - shaken
      [] pc = "anneal" -> (restarts - r - 1) * RestartCost + (iters - t) + 3
      [] OTHER -> 0

\* decipher has a step to take: one of its guards holds, and a call of
\* random.sample that does not raise has a pair to return
HasStep ==
    /\ \/ AtSeed \/ CanBeginRestart \/ CanReturn \/ CanShake
       \/ CanEndShake \/ CanIterate \/ CanEndRestart
    /\ CanShake => (SampleRaises(m) \/ Sample2(m) # {})
    /\ CanIterate => (DivisionRaises(t, iters) \/ SampleRaises(current_key)
                       \/ Sample2(current_key) # {})

\* C4: decipher terminates and never raises: it is never in an error state,
\* has a step to take until it has returned, every step uses up one of a
\* finite number of steps left, and on return it has made exactly
\* restarts * iters annealing iterations.
C4_Terminates ==
    /\ [](pc # "error")
    /\ [](pc # "done" => HasStep)
    /\ [](Remaining >= 0)
    /\ [][Remaining' < Remaining]_vars
    /\ [](pc = "done" => steps = restarts * iters)

\* C4, witness: a run of several restarts of several iterations has returned.
C4_Witness == pc = "done" /\ restarts = 2 /\ iters = 2 /\ steps = 4

\* no character of the text is a letter of the alphabet
NoLetters(text) == \A i \in DOMAIN text : text[i] \notin AlphSet

\* C10: for a text without letters decipher returns the sentinel score and
\* the text itself.
C10_NoLetters ==
    (pc = "done" /\ NoLetters(cipher_norm)) =>
        /\ result[3] = Sentinel
        /\ result[1] = cipher_norm

\* C10, witness: a run over a text of punctuation and blanks has returned
\* after restarts and iterations.
C10_Witness ==
    /\ pc = "done" /\ cipher_norm = <<".", " ">>
    /\ restarts = 2 /\ iters = 2
\* C6: for every text and every bijective key, apply_mapping returns a text
\* of the same length in which a character outside the alphabet is unchanged
\* and a letter c is replaced by key[c].
C6_ApplyMapping ==
    (call.op = "apply_mapping" /\ IsBijection(call.key)) =>
        /\ Len(call.ret) = Len(call.text)
        /\ \A i \in 1..Len(call.text) :
              IF call.text[i] \in AlphSet
              THEN call.ret[i] = call.key[call.text[i]]
              ELSE call.ret[i] = call.text[i]

C6_Witness ==
    /\ call.op = "apply_mapping"
    /\ IsBijection(call.key)
    /\ call.text = <<" ", "a">>
    /\ call.ret = <<" ", "s">>

\* C7: swapping two distinct images of a bijective key and swapping the same
\* two images again gives back the key.
C7_SwapInvolution ==
    (call.op = "random_swap_key twice" /\ IsBijection(call.arg) /\ call.a # call.b) =>
        call.ret = call.arg

C7_Witness ==
    /\ call.op = "random_swap_key twice"
    /\ IsBijection(call.arg)
    /\ call.a # call.b
    /\ call.once # call.arg

\* C8: in the key random_swap_key returns, the symbols that mapped to a map
\* to b and those that mapped to b map to a, every other entry is the one of
\* the input (for a bijective key exactly two entries differ), and the input
\* key is not modified.
C8_SwapFrame ==
    call.op = "random_swap_key" =>
        /\ call.a # call.b
        /\ DOMAIN call.ret = DOMAIN call.arg
        /\ \A k \in DOMAIN call.arg :
              /\ call.arg[k] = call.a => call.ret[k] = call.b
              /\ call.arg[k] = call.b => call.ret[k] = call.a
              /\ call.arg[k] \notin {call.a, call.b} => call.ret[k] = call.arg[k]
        /\ IsBijection(call.arg) =>
              Cardinality({k \in DOMAIN call.arg : call.ret[k] # call.arg[k]}) = 2
        /\ call.mapping = call.arg

C8_Witness ==
    /\ call.op = "random_swap_key"
    /\ IsBijection(call.arg)
    /\ \E k \in AlphSet : call.ret[k] = call.arg[k]
    /\ \E k \in AlphSet : call.ret[k] # call.arg[k]

\* the proposal of a symbol, None when the mapping has none
Proposed(mapping, c) == IF c \in DOMAIN mapping THEN mapping[c] ELSE None

\* a proposal conflicts when a symbol earlier in the alphabet proposes the same image
Conflicts(mapping, c) ==
    \E i \in 1..(IndexOf(ALPH, c) - 1) : Proposed(mapping, ALPH[i]) = Proposed(mapping, c)

\* the symbols permute_fix resolves: image in the alphabet, no conflict
Resolved(mapping) ==
    {c \in AlphSet : Proposed(mapping, c) \in AlphSet /\ ~Conflicts(mapping, c)}

\* C9: permute_fix returns a bijection on the alphabet for every proposed
\* mapping; a symbol whose proposed image lies in the alphabet and does not
\* conflict keeps it; the unresolved symbols, in alphabet order, receive the
\* images not kept, in alphabet order.
C9_PermuteFix ==
    call.op = "permute_fix" =>
        LET kept == Resolved(call.mapping)
            unresolved == SelectSeq(ALPH, LAMBDA c : c \notin kept)
            remaining == SelectSeq(ALPH, LAMBDA x :
                             x \notin {Proposed(call.mapping, c) : c \in kept})
        IN  /\ IsBijection(call.ret)
            /\ \A c \in kept : call.ret[c] = call.mapping[c]
            /\ Len(unresolved) = Len(remaining)
            /\ \A i \in 1..Len(unresolved) : call.ret[unresolved[i]] = remaining[i]

C9_Witness ==
    /\ call.op = "permute_fix"
    /\ DOMAIN call.mapping = {"a", "e"}
    /\ call.mapping["a"] = "s"
    /\ call.mapping["e"] = "s"
    /\ call.ret = ("a" :> "s" @@ "e" :> "a" @@ "s" :> "e")

\* C5: two invocations with the same arguments and the same seed hold the
\* same current and best candidates at every step and return the same
\* plaintext, key and score.
C5_Deterministic ==
    twin.on =>
        /\ twin.c = Candidates
        /\ twin.result = result

\* a text holds a bigram of the table among its letters, or a word of the lexicon
Recognized(plain) ==
    \/ \E i \in 1..(Len(only_letters(plain)) - 1) :
          SubSeq(only_letters(plain), i, i + 1) \in DOMAIN BIGRAM_SCORES
    \/ \E i \in DOMAIN plain, j \in DOMAIN plain :
          /\ i <= j
          /\ InSeq(SubSeq(plain, i, j), COMMON_WORDS)
          /\ \A k \in i..j : plain[k] \notin Whitespace
          /\ i > 1 => plain[i - 1] \in Whitespace
          /\ j < Len(plain) => plain[j + 1] \in Whitespace

OneSwapApart(mapping, key) ==
    /\ DOMAIN key = DOMAIN mapping
    /\ Range(key) = Range(mapping)
    /\ Cardinality({k \in DOMAIN mapping : key[k] # mapping[k]}) = 2

\* C12: restart 0 starts from the seed key unchanged; a restart r > 0 starts
\* from a copy of the seed key put through exactly 50 swaps; base_key is
\* never modified; the key a restart starts from does not depend on the
\* current key an earlier restart left, and between restarts the best
\* (key, plaintext, score) is kept as it is.
C12_RestartsFromSeed ==
    /\ [][base_key # NoKey => base_key' = base_key]_vars
    /\ [][(pc = "restart" /\ pc' = "anneal") => (r = 0 /\ current_key' = base_key)]_vars
    /\ [][(pc = "restart" /\ pc' = "shake") =>
            (r > 0 /\ m' = base_key /\ shaken' = 0)]_vars
    /\ [][(pc = "shake" /\ pc' = "shake") =>
            (OneSwapApart(m, m') /\ shaken' = shaken + 1)]_vars
    /\ [][(pc = "shake" /\ pc' = "anneal") =>
            (r > 0 /\ shaken = Shakes /\ current_key' = m)]_vars
    /\ [][(pc = "restart" \/ pc = "shake") => (best' = best /\ r' = r)]_vars

C12_Witness ==
    /\ pc = "anneal"
    /\ r = 1
    /\ t = 1
    /\ steps > 0
    /\ shaken = Shakes
    /\ current_key = m
    /\ m # base_key

\* C13: once a restart has set its starting key, current_plain is the decode
\* of the ciphertext under current_key and current_score the score of
\* current_plain; from the seed on the same holds of best_key, best_plain
\* and best_score.
C13_CandidatesConsistent ==
    /\ current_key # NoKey =>
          /\ current_plain = apply_mapping(cipher_norm, current_key)
          /\ current_score = score_text(current_plain)
    /\ best_key # NoKey =>
          /\ best_plain = apply_mapping(cipher_norm, best_key)
          /\ best_score = score_text(best_plain)

C13_Witness ==
    /\ pc = "done"
    /\ best_key # base_key
    /\ best_plain # SeedPlain
    /\ current_key # best_key
    /\ current_plain # best_plain

\* C14: in every iteration a neighbour that scores at least as high as the
\* current key is accepted, whatever the temperature and the random draw;
\* and an iteration that rejects its neighbour leaves the current and the
\* best (key, plaintext, score) as they were.
C14_AcceptAndFrame ==
    /\ [](last.on =>
            (~ScoreLess(last.new_score, last.current_score) =>
                (last.accepted /\ ~last.drew)))
    /\ [][(pc = "anneal" /\ t' = t + 1 /\ ~last'.accepted) =>
            (current' = current /\ best' = best)]_vars
    /\ [][(pc = "anneal" /\ t' = t + 1 /\ last'.accepted) =>
            (current_score' = last'.new_score)]_vars

\* the first iteration was accepted above the seed's score, the second one
\* has just been rejected
C14_Witness ==
    /\ pc = "anneal"
    /\ t = 3
    /\ last.on
    /\ ~last.accepted
    /\ exceeded

\* C15, as claimed: at every iteration t in 1..iters the temperature
\* T = max(Tmin, T0 * (1 - t/iters)) is strictly above Tmin.
C15_AboveTmin ==
    CanIterate => ScoreLess(Tmin, Temperature(t, iters))

\* C15, amended: at every iteration t in 1..iters the temperature is at
\* least Tmin; it is Tmin itself once T0 * (1 - t/iters) <= Tmin, as in the
\* last iteration of every restart.
C15_NotBelowTmin ==
    CanIterate => ~ScoreLess(Temperature(t, iters), Tmin)

C15_Witness ==
    /\ CanIterate
    /\ t = iters
    /\ iters = 2
    /\ ~ScoreLess(Tmin, Temperature(t, iters))
    /\ ~ScoreLess(Temperature(t, iters), Tmin)

\* the target sequence: the reference order, with "e" in front when forced
Target(force) ==
    IF force THEN <<"e">> \o SelectSeq(SPANISH_FREQ_ORDER, LAMBDA x : x # "e")
    ELSE SPANISH_FREQ_ORDER

\* C16: for a ciphertext of letters, initial_key_from_freq returns the key
\* that pairs the cipher symbols, by descending frequency and with the
\* absent symbols after them in alphabet order, with the symbols of the
\* target sequence position by position; with force_e the symbol mapped to
\* "e" is a most frequent one.
C16_SeedByFrequency ==
    call.op = "initial_key_from_freq" =>
        LET key == call.ret
            text == call.ciphertext_letters
            Pos(c) == IndexOf(Target(call.force_e), key[c])
        IN  /\ IsBijection(key)
            /\ \A c, d \in AlphSet :
                  Pos(c) < Pos(d) => Count(text, c) >= Count(text, d)
            /\ \A c, d \in AlphSet :
                  (Count(text, c) = 0 /\ Count(text, d) = 0 /\ Pos(c) < Pos(d)) =>
                      IndexOf(ALPH, c) < IndexOf(ALPH, d)
            /\ call.force_e =>
                  \A c, d \in AlphSet : key[c] = "e" => Count(text, c) >= Count(text, d)

C16_Witness ==
    /\ call.op = "initial_key_from_freq"
    /\ call.ciphertext_letters = <<"e", "s", "s">>
    /\ call.force_e
    /\ call.ret = ("a" :> "s" @@ "e" :> "a" @@ "s" :> "e")

\* C17: initial_key_from_freq returns the same key with force_e = True and
\* with force_e = False, for every ciphertext.
C17_ForceEHasNoEffect ==
    call.op = "initial_key_from_freq both" => call.other = call.ret

C17_Witness ==
    /\ call.op = "initial_key_from_freq both"
    /\ ~call.force_e
    /\ call.ciphertext_letters = <<"s", "s", "a">>
    /\ call.ret["s"] = "e"
    /\ call.other = call.ret

====
